---- MODULE Spec2Model ----
(***************************************************************************)
(* The dither engine of api/main.rs: floyd_steinberg_dither,               *)
(* atkinson_dither, ordered_dither, threshold_dither and select_algorithm, *)
(* over 8-bit grayscale grids (image::GrayImage).                          *)
(*                                                                         *)
(* A grid is a record [w, h, px] with px a function from the coordinates   *)
(* <<x, y>>, 0 <= x < w, 0 <= y < h, to the samples 0..255.  The two       *)
(* error-diffusion routines are modelled one visited pixel per step (the   *)
(* body of the inner `for x` loop, its whole neighbour loop included); the *)
(* two stateless routines are operators applied in one step.               *)
(***************************************************************************)
EXTENDS Integers, Sequences, FiniteSets, TLC

VARIABLES
    img,        \* the input grid handed to the call (never mutated: `&GrayImage`)
    alg_type,   \* select_algorithm's identifier, NoAlg for a direct call
    threshold,  \* threshold_dither's `threshold` argument (0 when not running it)
    pc,         \* "idle", "floyd_steinberg", "atkinson", "done", "panic"
    img_buf,    \* the working buffer `img_buf` of the error-diffusion routines
    x, y,       \* the loop variables of the raster scan
    visits,     \* history: the pixels visited so far, in order
    touched,    \* history: the coordinates get_pixel/put_pixel were called on in the last step
    result      \* the returned grid

vars == <<img, alg_type, threshold, pc, img_buf, x, y, visits, touched, result>>

-----------------------------------------------------------------------------
(* Bounds of the model *)

\* Largest width and largest height of an input grid.
MaxDim == 5

\* Largest number of pixels of an input grid.
MaxCells == 6

\* The samples input grids are built from: both extremes, and the two values
\* around the binarization point 128.
Samples == {0, 127, 128, 255}

\* The thresholds threshold_dither is called with directly.
Thresholds == {0, 127, 128, 254, 255}

\* The identifiers select_algorithm is called with: the three it matches and
\* some it does not (an unknown name, the name of the fallback, the empty
\* string, a known name in another case).
AlgIds == {"floyd-steinberg", "ordered", "atkinson",
           "nonexistent", "threshold", "", "Ordered"}

\* The 2x2 fixture [[100,150],[200,50]] (rows top to bottom).
Fixture == [w |-> 2, h |-> 2,
            px |-> (<<0, 0>> :> 100) @@ (<<1, 0>> :> 150) @@
                   (<<0, 1>> :> 200) @@ (<<1, 1>> :> 50)]

NoAlg == "<direct call>"

-----------------------------------------------------------------------------
(* Grids *)

Coords(w, h) == (0 .. w - 1) \X (0 .. h - 1)

\* GrayImage::new(width, height): a zero-filled buffer.
NewImage(w, h) == [w |-> w, h |-> h, px |-> [c \in Coords(w, h) |-> 0]]

Shapes == {s \in (0 .. MaxDim) \X (0 .. MaxDim) : s[1] * s[2] <= MaxCells}

Grids == UNION {{[w |-> s[1], h |-> s[2], px |-> f] :
                    f \in [Coords(s[1], s[2]) -> Samples]} : s \in Shapes}

\* Position of a pixel in the raster scan (row-major).
RasterIndex(g, c) == c[2] * g.w + c[1]

-----------------------------------------------------------------------------
(* Integer conversions of the code *)

\* `v as i32` for a u32 v: the value modulo 2^32, read as two's complement.
AsI32(v) == IF v <= 2147483647 THEN v ELSE v - 2147483647 - 2147483647 - 2

\* `v as u32` for an i32 v.
AsU32(v) == IF v >= 0 THEN v ELSE v + 2147483647 + 2147483647 + 2

\* `v as u8` for an i16 v: the low eight bits.
AsU8(v) == v % 256

\* Mutant of TruncDiv: floor division (an arithmetic shift, or a port to a
\* language whose division floors).
TruncDiv_Floor(a, b) == a \div b

\* Rust's `/` on signed integers truncates toward zero (TLA+'s \div floors).
TruncDiv(a, b) == IF a >= 0 THEN a \div b ELSE -((-a) \div b)

\* i16::clamp(lo, hi).
Clamp(v, lo, hi) == IF v < lo THEN lo ELSE IF v > hi THEN hi ELSE v

\* `f as u8` for an f32 f given in sixteenths (f = n16/16): truncation toward
\* zero, saturating at 0 and 255.
F32AsU8(n16) ==
    IF n16 <= 0 THEN 0
    ELSE IF n16 >= 255 * 16 THEN 255
    ELSE n16 \div 16

-----------------------------------------------------------------------------
(* Stateless routines *)

BAYER4 == << <<15, 135, 45, 165>>,
             <<195, 75, 225, 105>>,
             <<60, 180, 30, 150>>,
             <<240, 120, 210, 90>> >>

\* Mutant of BayerThreshold: row and column exchanged.
BayerThreshold_Transposed(px, py) == BAYER4[(px % 4) + 1][(py % 4) + 1]

\* BAYER4[(y % 4) as usize][(x % 4) as usize] (sequences are 1-based).
BayerThreshold(px, py) == BAYER4[(py % 4) + 1][(px % 4) + 1]

\* Mutant of ordered_dither: the comparison turned around.
ordered_dither_Inverted(g) ==
    [NewImage(g.w, g.h) EXCEPT
        !.px = [c \in Coords(g.w, g.h) |->
                   IF g.px[c] < BayerThreshold(c[1], c[2]) THEN 255 ELSE 0]]

ordered_dither(g) ==
    [NewImage(g.w, g.h) EXCEPT
        !.px = [c \in Coords(g.w, g.h) |->
                   IF g.px[c] > BayerThreshold(c[1], c[2]) THEN 255 ELSE 0]]

\* Mutant of threshold_dither: a non-strict comparison.
threshold_dither_Ge(g, t) ==
    [NewImage(g.w, g.h) EXCEPT
        !.px = [c \in Coords(g.w, g.h) |->
                   IF g.px[c] >= t THEN 255 ELSE 0]]

\* Mutant of threshold_dither: the argument ignored for the default 128.
threshold_dither_IgnoresArg(g, t) ==
    [NewImage(g.w, g.h) EXCEPT
        !.px = [c \in Coords(g.w, g.h) |->
                   IF g.px[c] > 128 THEN 255 ELSE 0]]

threshold_dither(g, t) ==
    [NewImage(g.w, g.h) EXCEPT
        !.px = [c \in Coords(g.w, g.h) |->
                   IF g.px[c] > t THEN 255 ELSE 0]]

-----------------------------------------------------------------------------
(* Error diffusion *)

\* new_pixel = if old_pixel < 128 { 0 } else { 255 }
Binarize(old_pixel) == IF old_pixel < 128 THEN 0 ELSE 255

\* Mutant of InBounds: the upper limits included.
InBounds_Inclusive(nx, ny, width, height) ==
    nx >= 0 /\ nx <= AsI32(width) /\ ny >= 0 /\ ny <= AsI32(height)

\* The bounds check guarding every diffusion target.
InBounds(nx, ny, width, height) ==
    nx >= 0 /\ nx < AsI32(width) /\ ny >= 0 /\ ny < AsI32(height)

\* Mutant of FS_KERNEL: the lower-left target written (-1, 0).
FS_KERNEL_LeftTypo == << <<1, 0, 7>>, <<-1, 0, 3>>, <<0, 1, 5>>, <<1, 1, 1>> >>

\* (dx, dy, factor * 16) of floyd_steinberg_dither, in the order of the code.
FS_KERNEL == << <<1, 0, 7>>, <<-1, 1, 3>>, <<0, 1, 5>>, <<1, 1, 1>> >>

\* Mutant of ATKINSON_KERNEL: the lower-left target written (-1, 0).
ATKINSON_KERNEL_LeftTypo ==
    << <<1, 0>>, <<2, 0>>, <<-1, 0>>, <<0, 1>>, <<1, 1>>, <<0, 2>> >>

\* (dx, dy) of atkinson_dither, in the order of the code.
ATKINSON_KERNEL == << <<1, 0>>, <<2, 0>>, <<-1, 1>>, <<0, 1>>, <<1, 1>>, <<0, 2>> >>

\* The targets (as u32 coordinates) of a kernel that pass the bounds check at
\* pixel (px, py), in kernel order, each with its kernel entry.
Targets(kernel, px, py, width, height) ==
    LET Hit(i) == InBounds(AsI32(px) + kernel[i][1], AsI32(py) + kernel[i][2],
                           width, height)
        Pos(i) == <<AsU32(AsI32(px) + kernel[i][1]), AsU32(AsI32(py) + kernel[i][2])>>
    IN  [i \in {j \in 1 .. Len(kernel) : Hit(j)} |-> Pos(i)]

\* floyd_steinberg_dither's error for the current pixel.
FsError(old_pixel) == old_pixel - Binarize(old_pixel)

\* atkinson_dither's error for the current pixel.
AtkinsonError(old_pixel) == TruncDiv(old_pixel - Binarize(old_pixel), 8)

\* Mutant of FsNewVal: rounded to the nearest integer instead of truncated.
FsNewVal_Rounded(neighbor_val, error, k) ==
    F32AsU8(Clamp(16 * neighbor_val + error * k, 0, 255 * 16) + 8)

\* (neighbor_val + error as f32 * factor).clamp(0.0, 255.0) as u8.  All the
\* values are multiples of 1/16 below 2^24, so f32 computes them exactly; they
\* are kept here in sixteenths.
FsNewVal(neighbor_val, error, k) ==
    F32AsU8(Clamp(16 * neighbor_val + error * k, 0, 255 * 16))

\* (neighbor_val + error).clamp(0, 255) as u8
AtkinsonNewVal(neighbor_val, error) == AsU8(Clamp(neighbor_val + error, 0, 255))

\* The neighbour loop of floyd_steinberg_dither from kernel entry i on.
RECURSIVE FsDiffuse(_, _, _, _)
FsDiffuse(px, tg, error, i) ==
    IF i > Len(FS_KERNEL) THEN px
    ELSE IF i \in DOMAIN tg
         THEN FsDiffuse([px EXCEPT ![tg[i]] = FsNewVal(px[tg[i]], error, FS_KERNEL[i][3])],
                        tg, error, i + 1)
         ELSE FsDiffuse(px, tg, error, i + 1)

\* The neighbour loop of atkinson_dither from kernel entry i on.
RECURSIVE AtkinsonDiffuse(_, _, _, _)
AtkinsonDiffuse(px, tg, error, i) ==
    IF i > Len(ATKINSON_KERNEL) THEN px
    ELSE IF i \in DOMAIN tg
         THEN AtkinsonDiffuse([px EXCEPT ![tg[i]] = AtkinsonNewVal(px[tg[i]], error)],
                              tg, error, i + 1)
         ELSE AtkinsonDiffuse(px, tg, error, i + 1)

\* The loop variables after the body has run at (x, y): `for x in 0..width`
\* inside `for y in 0..height`.
NextXY(g, cx, cy) == IF cx + 1 < g.w THEN <<cx + 1, cy>> ELSE <<0, cy + 1>>

\* The scan has pixels left: y < height and the row is not empty.
ScanRunning(g, cy) == cy < g.h /\ g.w > 0

-----------------------------------------------------------------------------
(* State machine *)

Init ==
    /\ img \in Grids \cup {Fixture}
    /\ alg_type = NoAlg
    /\ threshold = 0
    /\ pc = "idle"
    /\ img_buf = NewImage(0, 0)
    /\ x = 0
    /\ y = 0
    /\ visits = <<>>
    /\ touched = {}
    /\ result = NewImage(0, 0)

\* Mutant of MatchArm: the identifier matched without regard to case.
MatchArm_IgnoreCase(a) ==
    CASE a = "floyd-steinberg" -> "floyd_steinberg_dither"
      [] a \in {"ordered", "Ordered"} -> "ordered_dither"
      [] a = "atkinson"        -> "atkinson_dither"
      [] OTHER                 -> "threshold_dither"

\* The arm of select_algorithm's `match alg_type` that an identifier takes:
\* string patterns match by exact equality, `_` takes everything else.
MatchArm(a) ==
    CASE a = "floyd-steinberg" -> "floyd_steinberg_dither"
      [] a = "ordered"         -> "ordered_dither"
      [] a = "atkinson"        -> "atkinson_dither"
      [] OTHER                 -> "threshold_dither"

\* select_algorithm(alg_type, img).  The two stateless routines return at
\* once; the error-diffusion routines clone the input and start their scan.
SelectAlgorithm(a) ==
    /\ pc = "idle"
    /\ alg_type' = a
    /\ CASE MatchArm(a) = "floyd_steinberg_dither" ->
              /\ pc' = "floyd_steinberg"
              /\ img_buf' = img
              /\ UNCHANGED <<result, threshold>>
         [] MatchArm(a) = "ordered_dither" ->
              /\ pc' = "done"
              /\ result' = ordered_dither(img)
              /\ UNCHANGED <<img_buf, threshold>>
         [] MatchArm(a) = "atkinson_dither" ->
              /\ pc' = "atkinson"
              /\ img_buf' = img
              /\ UNCHANGED <<result, threshold>>
         [] OTHER ->
              /\ pc' = "done"
              /\ threshold' = 128
              /\ result' = threshold_dither(img, 128)
              /\ UNCHANGED img_buf
    /\ UNCHANGED <<img, x, y, visits, touched>>

\* A direct call threshold_dither(&img, t).
ThresholdDither(t) ==
    /\ pc = "idle"
    /\ pc' = "done"
    /\ threshold' = t
    /\ result' = threshold_dither(img, t)
    /\ UNCHANGED <<img, alg_type, img_buf, x, y, visits, touched>>

\* One pass of the loop body of floyd_steinberg_dither, at pixel (x, y).
\* get_pixel and put_pixel panic on a coordinate outside the buffer.
FloydSteinbergStep ==
    /\ pc = "floyd_steinberg"
    /\ ScanRunning(img_buf, y)
    /\ LET old_pixel == img_buf.px[<<x, y>>]
           new_pixel == Binarize(old_pixel)
           error     == FsError(old_pixel)
           tg        == Targets(FS_KERNEL, x, y, img_buf.w, img_buf.h)
           acc       == {<<x, y>>} \cup {tg[i] : i \in DOMAIN tg}
           written   == [img_buf.px EXCEPT ![<<x, y>>] = AsU8(new_pixel)]
       IN  /\ touched' = acc
           /\ IF acc \subseteq Coords(img_buf.w, img_buf.h)
              THEN /\ img_buf' = [img_buf EXCEPT
                                     !.px = FsDiffuse(written, tg, error, 1)]
                   /\ pc' = pc
              ELSE /\ img_buf' = img_buf
                   /\ pc' = "panic"
    /\ visits' = Append(visits, <<x, y>>)
    /\ x' = NextXY(img_buf, x, y)[1]
    /\ y' = NextXY(img_buf, x, y)[2]
    /\ UNCHANGED <<img, alg_type, threshold, result>>

\* One pass of the loop body of atkinson_dither, at pixel (x, y).
AtkinsonStep ==
    /\ pc = "atkinson"
    /\ ScanRunning(img_buf, y)
    /\ LET old_pixel == img_buf.px[<<x, y>>]
           new_pixel == Binarize(old_pixel)
           error     == AtkinsonError(old_pixel)
           tg        == Targets(ATKINSON_KERNEL, x, y, img_buf.w, img_buf.h)
           acc       == {<<x, y>>} \cup {tg[i] : i \in DOMAIN tg}
           written   == [img_buf.px EXCEPT ![<<x, y>>] = AsU8(new_pixel)]
       IN  /\ touched' = acc
           /\ IF acc \subseteq Coords(img_buf.w, img_buf.h)
              THEN /\ img_buf' = [img_buf EXCEPT
                                     !.px = AtkinsonDiffuse(written, tg, error, 1)]
                   /\ pc' = pc
              ELSE /\ img_buf' = img_buf
                   /\ pc' = "panic"
    /\ visits' = Append(visits, <<x, y>>)
    /\ x' = NextXY(img_buf, x, y)[1]
    /\ y' = NextXY(img_buf, x, y)[2]
    /\ UNCHANGED <<img, alg_type, threshold, result>>

\* The loops are over: the routine returns img_buf.
ScanReturn ==
    /\ pc \in {"floyd_steinberg", "atkinson"}
    /\ ~ScanRunning(img_buf, y)
    /\ pc' = "done"
    /\ result' = img_buf
    /\ touched' = {}
    /\ UNCHANGED <<img, alg_type, threshold, img_buf, x, y, visits>>

Next ==
    \/ \E a \in AlgIds : SelectAlgorithm(a)
    \/ \E t \in Thresholds : ThresholdDither(t)
    \/ FloydSteinbergStep
    \/ AtkinsonStep
    \/ ScanReturn

Spec == Init /\ [][Next]_vars

-----------------------------------------------------------------------------
(* Properties *)

KnownIds == {"floyd-steinberg", "ordered", "atkinson"}

IsBinary(g) == \A c \in DOMAIN g.px : g.px[c] \in {0, 255}

\* The call that has returned is threshold_dither: called directly, or from
\* the default arm of select_algorithm.
ThresholdReturned ==
    pc = "done" /\ (alg_type = NoAlg \/ alg_type \in AlgIds \ KnownIds)

\* C1: whichever routine ran, the returned grid has the width and the height
\* of the input, a sample for exactly the input's coordinates, and every
\* sample is 0 or 255.
C1_SameDimensionsBinaryOutput ==
    pc = "done" =>
        /\ result.w = img.w
        /\ result.h = img.h
        /\ DOMAIN result.px = Coords(img.w, img.h)
        /\ \A c \in DOMAIN result.px : result.px[c] \in {0, 255}

\* An error-diffusion routine has returned on a grid with a non-binary sample
\* and more than one row and column.
C1_Witness ==
    /\ pc = "done"
    /\ alg_type = "atkinson"
    /\ img.w >= 2 /\ img.h >= 2
    /\ ~IsBinary(img)
    /\ \E c \in DOMAIN result.px : result.px[c] = 255
    /\ \E c \in DOMAIN result.px : result.px[c] = 0

\* C2: select_algorithm with an identifier that is none of the three exact
\* strings never fails, returns at once, and returns what threshold_dither
\* returns on the same input with threshold 128.
C2_UnknownFallsBackToThreshold128 ==
    (alg_type \in AlgIds \ KnownIds) =>
        /\ pc = "done"
        /\ result = threshold_dither(img, 128)
        /\ \A c \in Coords(img.w, img.h) :
              result.px[c] = IF img.px[c] > 128 THEN 255 ELSE 0

\* select_algorithm has returned for a known name in another case, on a grid
\* where ordered dithering would have answered differently.
C2_Witness ==
    /\ pc = "done"
    /\ alg_type = "Ordered"
    /\ img.w * img.h > 0
    /\ result # ordered_dither(img)

\* C3: threshold_dither sets a pixel to 255 exactly when its input sample is
\* strictly greater than the threshold, and to 0 otherwise.
C3_ThresholdStrict ==
    ThresholdReturned =>
        \A c \in Coords(img.w, img.h) :
            /\ (result.px[c] = 255) <=> (img.px[c] > threshold)
            /\ (result.px[c] = 0) <=> ~(img.px[c] > threshold)

\* threshold_dither has returned on a grid holding a sample equal to the
\* threshold (mapped to 0) and a sample above it (mapped to 255).
C3_Witness ==
    /\ pc = "done"
    /\ alg_type = NoAlg
    /\ \E c \in DOMAIN img.px : img.px[c] = threshold /\ result.px[c] = 0
    /\ \E c \in DOMAIN img.px : img.px[c] = threshold + 1 /\ result.px[c] = 255

\* C4: ordered_dither sets pixel (x, y) to 255 if its input sample is greater
\* than BAYER4[y mod 4][x mod 4] and to 0 otherwise; two pixels with the same
\* sample and the same coordinates modulo 4 get the same output; and replacing
\* the sample of any other pixel of the input leaves the pixel's output as it is.
C4_OrderedPerPixel ==
    (pc = "done" /\ alg_type = "ordered") =>
        /\ \A c \in Coords(img.w, img.h) :
              result.px[c] = IF img.px[c] > BAYER4[(c[2] % 4) + 1][(c[1] % 4) + 1]
                             THEN 255 ELSE 0
        /\ \A c, d \in Coords(img.w, img.h) :
              (/\ img.px[c] = img.px[d]
               /\ c[1] % 4 = d[1] % 4
               /\ c[2] % 4 = d[2] % 4) => result.px[c] = result.px[d]
        /\ \A c, d \in Coords(img.w, img.h) : \A v \in Samples :
              c # d => ordered_dither([img EXCEPT !.px[d] = v]).px[c] = result.px[c]

\* ordered_dither has returned on a grid wide or tall enough for the matrix to
\* repeat, with two equal samples binarized differently.
C4_Witness ==
    /\ pc = "done"
    /\ alg_type = "ordered"
    /\ img.w = 5
    /\ \E c, d \in DOMAIN img.px :
          img.px[c] = img.px[d] /\ result.px[c] = 255 /\ result.px[d] = 0
    /\ img.px[<<4, 0>>] = img.px[<<0, 0>>]
    /\ img.px[<<0, 0>>] = 127

\* C5: on a grid whose samples are all 0 or 255, ordered dithering and
\* threshold dithering with threshold 128 (as select_algorithm runs it) return
\* the input.
C5_IdempotentOnBinary ==
    (/\ pc = "done"
     /\ IsBinary(img)
     /\ \/ alg_type = "ordered"
        \/ alg_type \in AlgIds \ KnownIds
        \/ alg_type = NoAlg /\ threshold = 128) => result = img

\* ordered_dither has returned on a binary grid holding both 0 and 255.
C5_Witness ==
    /\ pc = "done"
    /\ alg_type = "ordered"
    /\ IsBinary(img)
    /\ \E c \in DOMAIN img.px : img.px[c] = 0
    /\ \E c \in DOMAIN img.px : img.px[c] = 255
    /\ img.w * img.h >= 4

\* C6 as stated: on a binary grid threshold_dither returns the input for
\* every threshold 0..255.
C6_Original ==
    (/\ pc = "done"
     /\ alg_type = NoAlg
     /\ IsBinary(img)
     /\ threshold \in 0 .. 255) => result = img

\* C6 amended: on a binary grid threshold_dither returns the input for every
\* threshold 0..254; with threshold 255 it returns the all-zero grid, which is
\* the input only when the input holds no 255.
C6_IdempotentBelow255 ==
    (/\ pc = "done"
     /\ alg_type = NoAlg
     /\ IsBinary(img)) =>
        /\ threshold \in 0 .. 254 => result = img
        /\ threshold = 255 => result = NewImage(img.w, img.h)

\* threshold_dither has returned on a binary grid holding both 0 and 255, with
\* the largest threshold that keeps it.
C6_Witness ==
    /\ pc = "done"
    /\ alg_type = NoAlg
    /\ threshold = 254
    /\ IsBinary(img)
    /\ \E c \in DOMAIN img.px : img.px[c] = 0
    /\ \E c \in DOMAIN img.px : img.px[c] = 255

\* A raster scan of one of the two error-diffusion routines is under way.
Scanning == pc \in {"floyd_steinberg", "atkinson"}

\* The step taken is one pass of a loop body (a pixel was visited).
PixelVisited == Scanning /\ visits' # visits

\* The neighbour offsets of the two kernels, as the specification lists them.
FsOffsets == {<<1, 0>>, <<-1, 1>>, <<0, 1>>, <<1, 1>>}
AtkinsonOffsets == {<<1, 0>>, <<2, 0>>, <<-1, 1>>, <<0, 1>>, <<1, 1>>, <<0, 2>>}
OffsetsOf(p) == IF p = "floyd_steinberg" THEN FsOffsets ELSE AtkinsonOffsets

\* C7: no routine ever panics on a coordinate or touches one outside
\* 0..W-1 by 0..H-1, and while pixels are left the loop variables name a
\* pixel of the grid; a pass of an error-diffusion loop body changes no pixel
\* other than the current one and the pixels at a kernel offset from it that
\* lie in the grid (a target outside is skipped, never wrapped around); and the
\* scan completes: each of its steps visits one more pixel or returns, no more
\* pixels are visited than the grid has, and it returns once all are visited.
C7_InBoundsAndCompletes ==
    /\ [](/\ pc # "panic"
          /\ touched \subseteq Coords(img.w, img.h)
          /\ Scanning =>
                /\ Len(visits) <= img.w * img.h
                /\ ScanRunning(img_buf, y) => <<x, y>> \in Coords(img.w, img.h)
                /\ ~ScanRunning(img_buf, y) => Len(visits) = img.w * img.h)
    /\ [][PixelVisited =>
            /\ DOMAIN img_buf'.px = Coords(img.w, img.h)
            /\ \A c \in Coords(img.w, img.h) :
                  (/\ c # <<x, y>>
                   /\ <<c[1] - x, c[2] - y>> \notin OffsetsOf(pc))
                  => img_buf'.px[c] = img_buf.px[c]]_vars
    /\ [][Scanning => (pc' = "done" \/ Len(visits') = Len(visits) + 1)]_vars

\* An error-diffusion routine has returned on a one-column grid of several
\* rows, where the right, lower-left and lower-right targets are always outside.
C7_Witness ==
    /\ pc = "done"
    /\ alg_type \in {"floyd-steinberg", "atkinson"}
    /\ img.w = 1 /\ img.h >= 3
    /\ Len(visits) = img.h
    /\ ~IsBinary(img)

Max(a, b) == IF a >= b THEN a ELSE b
Min(a, b) == IF a <= b THEN a ELSE b

\* The specification's update of a receiving pixel, for the fraction k/16.
RefNewVal(v, E, k) == Max(0, Min(255, (16 * v + E * k) \div 16))

RefUpdate(p, g, nx, ny, E, k) ==
    IF nx >= 0 /\ nx <= g.w - 1 /\ ny >= 0 /\ ny <= g.h - 1
    THEN [p EXCEPT ![<<nx, ny>>] = RefNewVal(p[<<nx, ny>>], E, k)]
    ELSE p

\* The working grid of the specification's raster scan (4.2) after its first
\* n pixels, top to bottom and left to right.
RECURSIVE RefFsScan(_, _)
RefFsScan(g, n) ==
    IF n = 0 THEN g.px
    ELSE LET p  == RefFsScan(g, n - 1)
             cx == (n - 1) % g.w
             cy == (n - 1) \div g.w
             S  == p[<<cx, cy>>]
             N  == IF S < 128 THEN 0 ELSE 255
             E  == S - N
             p0 == [p EXCEPT ![<<cx, cy>>] = N]
             p1 == RefUpdate(p0, g, cx + 1, cy, E, 7)
             p2 == RefUpdate(p1, g, cx - 1, cy + 1, E, 3)
             p3 == RefUpdate(p2, g, cx, cy + 1, E, 5)
         IN  RefUpdate(p3, g, cx + 1, cy + 1, E, 1)

FixtureExpected ==
    (<<0, 0>> :> 0) @@ (<<1, 0>> :> 255) @@ (<<0, 1>> :> 255) @@ (<<1, 1>> :> 0)

\* C8: floyd_steinberg_dither's working buffer is, after every visited pixel,
\* the working grid of the specification's raster scan after as many pixels;
\* what it returns is that scan's final grid; and on the fixture
\* [[100,150],[200,50]] it returns [[0,255],[255,0]].
C8_FloydSteinbergIsReferenceScan ==
    (alg_type = "floyd-steinberg") =>
        /\ img_buf.px = RefFsScan(img, Len(visits))
        /\ pc = "done" =>
              /\ Len(visits) = img.w * img.h
              /\ result.px = RefFsScan(img, img.w * img.h)
              /\ img = Fixture => result.px = FixtureExpected

\* floyd_steinberg_dither has returned on the fixture.
C8_Witness ==
    /\ pc = "done"
    /\ alg_type = "floyd-steinberg"
    /\ img = Fixture
    /\ Len(visits) = 4

\* C9: a pass of atkinson_dither's loop body at a pixel of working value S
\* writes N = 0 if S < 128 else 255 there, takes E = (S - N) divided by 8 with
\* the quotient truncated toward zero (so -15 <= E <= 15), replaces the value
\* v of each of the six targets that lies in the grid by clamp(v + E, 0, 255),
\* and changes no other pixel.
C9_AtkinsonStep ==
    [][(pc = "atkinson" /\ visits' # visits) =>
        LET S == img_buf.px[<<x, y>>]
            N == IF S < 128 THEN 0 ELSE 255
            E == CHOOSE e \in -15 .. 15 :
                    /\ (S - N >= 0) => (8 * e <= S - N /\ S - N < 8 * e + 8)
                    /\ (S - N < 0) => (8 * e - 8 < S - N /\ S - N <= 8 * e)
        IN  /\ pc' # "panic"
            /\ \A c \in Coords(img.w, img.h) :
                  img_buf'.px[c] =
                      IF c = <<x, y>> THEN N
                      ELSE IF <<c[1] - x, c[2] - y>> \in AtkinsonOffsets
                           THEN Max(0, Min(255, img_buf.px[c] + E))
                           ELSE img_buf.px[c]]_vars

\* atkinson_dither has visited a first pixel of value 128, whose error -127
\* does not divide by 8, on a grid with a pixel two to the right.
C9_Witness ==
    /\ pc = "atkinson"
    /\ Len(visits) = 1
    /\ img.px[<<0, 0>>] = 128
    /\ img.w >= 3
    /\ img_buf.px[<<2, 0>>] # img.px[<<2, 0>>]

\* C10: in both error-diffusion routines the k-th visited pixel is the k-th
\* pixel in row-major order, and when the routine returns every pixel has been
\* visited (so each exactly once); every pixel a pass touches besides the
\* current one comes strictly later in that order; and a pixel visited earlier
\* holds 0 or 255 and is left as it is by every later pass.
C10_RasterOrderNoRewrite ==
    /\ [](alg_type \in {"floyd-steinberg", "atkinson"} =>
            /\ \A k \in 1 .. Len(visits) :
                  /\ visits[k] \in Coords(img.w, img.h)
                  /\ RasterIndex(img, visits[k]) = k - 1
                  /\ img_buf.px[visits[k]] \in {0, 255}
            /\ pc = "done" => Len(visits) = img.w * img.h
            /\ Len(visits) > 0 =>
                  \A c \in touched \ {visits[Len(visits)]} :
                      RasterIndex(img, c) > RasterIndex(img, visits[Len(visits)]))
    /\ [][PixelVisited =>
            /\ visits' = Append(visits, <<x, y>>)
            /\ \A k \in 1 .. Len(visits) :
                  img_buf'.px[visits[k]] = img_buf.px[visits[k]]]_vars

\* A scan has visited three pixels or more and stands on a pixel whose working
\* value is no longer its input sample: it has received error from the pixels
\* visited before it.
C10_Witness ==
    /\ Scanning
    /\ Len(visits) >= 3
    /\ ScanRunning(img_buf, y)
    /\ y >= 1
    /\ img_buf.px[<<x, y>>] # img.px[<<x, y>>]

====
